---- MODULE Spec2Model ----
(***************************************************************************)
(* Job orchestration of researchAI: the controller                         *)
(* backend/src/controllers/researchController.js (in-memory Job Store,     *)
(* Bull queue, pipeline processor) together with the pure parts of the     *)
(* services it calls.                                                      *)
(*                                                                         *)
(* Granularity.  Node runs the controller on one event loop, so the code   *)
(* between two awaits is atomic.  Every action of a pipeline execution is  *)
(* the code from one write of the Job Store to the next one: the awaits in *)
(* between (job.progress, the collaborator call) touch no shared state,    *)
(* and their outcome (resolve or reject) is an input of the action.        *)
(***************************************************************************)
EXTENDS Integers, Sequences, FiniteSets, TLC

VARIABLES
    jobs,        \* the Map `jobs`: job id -> job record
    results,     \* the Map `results`: job id -> result record
    bull,        \* the Bull job of each enqueued unit of work, keyed by job id
    waiting,     \* Bull's wait list, oldest first
    execs,       \* the running invocations of the processor: <<job id, attempt>> -> locals
    clock,       \* the value `new Date()` last returned
    timeouts,    \* how many attempts Bull has timed out so far
    runs,        \* job id -> how many times the processor was invoked for it
    expanded,    \* job id -> the topics the expander returned to the invocation
                 \*           that last wrote "completed"
    last,        \* job id -> what the invocation did that ended or completed the
                 \*           job last, since the job was dispatched last
    env          \* the environment the run is taken in (see Environments)

vars == <<jobs, results, bull, waiting, execs, clock, timeouts, runs, expanded,
          last, env>>

-----------------------------------------------------------------------------
(* Bounds of the model *)

MaxSubmits == 2     \* accepted POST /api/research requests (one under "free")
MaxTopics == 2      \* longest topic list the expander returns
MaxTimeouts == 1    \* attempts cut by Bull's job timeout
MaxClock == 1       \* largest value of the clock
MaxLongTopics == 4  \* longest topic list the expander returns under "long"
MaxPapers == 2      \* longest list a search resolves to under "papers"
MaxEarlierTopics == 51  \* longest topic list of the earlier search loop

(* Program constants *)

Attempts == 2                \* attempts: 2
ProgressExpanding == 10
ProgressSearching == 20
SearchBand == 30
ProgressProcessing == 50
ProgressAnalyzing == 90
ProgressCompleted == 100
ProgressFailed == 0
ProgressQueued == 0
EarlierBand == 50            \* the earlier controller: progressPerTopic = 50 / n
EarlierProcessing == 70
EarlierAttempts == 3         \* the earlier controller: attempts: 3

JobIds == 1 .. MaxSubmits

(***************************************************************************)
(* Environments.  The inputs of a run (what the collaborators, Redis and   *)
(* the clock do) are drawn from sets that depend on env, fixed by Init:    *)
(*   "free"  one job; every call may reject or resolve to any value;       *)
(*           Bull may time attempts out; the run fits in one clock tick.   *)
(*   "many"  up to MaxSubmits jobs; expandQuery may reject, every other    *)
(*           call resolves to one fixed value; Bull may time attempts out. *)
(*   "search" one job; expandQuery resolves to any list of topics; each     *)
(*           searchScholar rejects or resolves to a list with a paper, so  *)
(*           that a topic has an empty list only when its search rejected; *)
(*           every other call resolves; no attempt is timed out.           *)
(*   "long"  as "search", but expandQuery resolves to a list of 1 to         *)
(*           MaxLongTopics distinct topics.                                *)
(*   "papers" one job with the one topic "a"; searchScholar resolves to any *)
(*           list of up to MaxPapers papers, with or without title,        *)
(*           abstract and PDF link; the PDFs can or cannot be read; the    *)
(*           analysis may reject; no attempt is timed out.                 *)
(*   "earlier" the search loop of the earlier version of the controller     *)
(*           (src/unnamed/part_003), entered with 1 to MaxEarlierTopics    *)
(*           topics; every search resolves to one paper.  Only that loop   *)
(*           runs: see EarlierSearchTopic.                                 *)
(*   "stale" as "many" without timeouts and with one new job, but the       *)
(*           server starts on a queue that still holds a unit of work of   *)
(*           an earlier run of the server: the queue is kept in Redis, the *)
(*           Map `jobs` is not, so the unit's job id has no job record.    *)
(*   a script ("failNone", "failOnce", "failTwice", "failAlways"):         *)
(*           up to MaxSubmits jobs; expandQuery rejects in the first 0, 1, *)
(*           2, all attempts of each job, every other call resolves, no    *)
(*           attempt is timed out; the clock advances.                     *)
(***************************************************************************)
Scripts == {"failNone", "failOnce", "failTwice", "failAlways"}

JobLimit ==
    IF env \in {"free", "search", "long", "stale", "papers", "earlier"} THEN 1
    ELSE MaxSubmits
Topics == {"a", "b"}
TopicNames == <<"a", "b", "c", "d", "e", "f">>

(* Values of req.body.query: missing, empty, blank, and a real query. *)
NoQuery == "<undefined>"
QueryInputs == IF env = "many" THEN {NoQuery, "q"} ELSE {NoQuery, "", " ", "q"}

UNDEFINED == "<undefined>"
NoDate == -1

-----------------------------------------------------------------------------
(* Numbers.  progress is a JavaScript number; 20 + (i / n) * 30 need not be  *)
(* an integer, so progress values are exact fractions <<num, den>> in lowest *)
(* terms.                                                                    *)

RECURSIVE Gcd(_, _)
Gcd(a, b) == IF b = 0 THEN a ELSE Gcd(b, a % b)

Rat(n, d) == <<n \div Gcd(n, d), d \div Gcd(n, d)>>
Num(k) == <<k, 1>>
Leq(p, q) == p[1] * q[2] <= q[1] * p[2]
Less(p, q) == p[1] * q[2] < q[1] * p[2]
IsInteger(p) == p[2] = 1

(* Mutant of SearchProgress: the band is counted from topic 1, not topic 0 *)
SearchProgressFromOne(i, n) == Rat(ProgressSearching * n + (i + 1) * SearchBand, n)

(* const progress = 20 + (i / expandedTopics.length) * 30 *)
SearchProgress(i, n) == Rat(ProgressSearching * n + i * SearchBand, n)

(* The earlier controller:                                                   *)
(* Math.floor(overallProgress + i * progressPerTopic), progressPerTopic = 50 / n *)
EarlierProgress(i, n) == Num((ProgressSearching * n + i * EarlierBand) \div n)

-----------------------------------------------------------------------------
(* Sequences of length 0..n over S *)

SeqUpTo(S, n) == UNION {[1 .. k -> S] : k \in 0 .. n}

RECURSIVE SumLen(_, _)
SumLen(f, D) ==
    IF D = {} THEN 0
    ELSE LET k == CHOOSE x \in D : TRUE
         IN  Len(f[k]) + SumLen(f, D \ {k})

-----------------------------------------------------------------------------
(* Documents.  searchScholar builds each paper from the result page: title  *)
(* and abstract may be empty strings, pdfUrl may be null, fullText is null.  *)

NULL == "<null>"

Paper(title, abstract, pdfUrl) ==
    [title |-> title, authors |-> "Unknown Authors", abstract |-> abstract,
     pdfUrl |-> pdfUrl, fullText |-> NULL]

GoodPaper == Paper("T", "A", TRUE)
UntitledPaper == Paper("", "A", TRUE)
PlainPaper == Paper("T", "", FALSE)     \* no abstract, no PDF link

(* What one call of searchScholar may resolve to under "papers" *)
PaperLists == SeqUpTo({GoodPaper, UntitledPaper, PlainPaper}, MaxPapers)

(* What one call of searchScholar may resolve to *)
SearchResults == {<<>>, <<GoodPaper>>}

(* What expandQuery may resolve to, up to the names of the topics *)
TopicLists == {t \in SeqUpTo(Topics, MaxTopics) : t = <<>> \/ t[1] = "a"}

(* What expandQuery resolves to under "long": the first k topic names *)
LongTopicLists == {SubSeq(TopicNames, 1, k) : k \in 1 .. MaxLongTopics}

(* if (!paper.title) continue *)
HasTitle(paper) == paper.title # ""

(* One paper of processPapers: fullText is set when the PDF was downloaded  *)
(* and parsed, and left as it was otherwise.                                *)
ProcessPaper(paper, extracted) ==
    IF paper.pdfUrl /\ extracted THEN [paper EXCEPT !.fullText = "text"] ELSE paper

(* Mutant of ProcessTopic: a paper is kept only when it has a PDF link *)
ProcessTopicLinkedOnly(papers, extracted) ==
    LET linked(paper) == HasTitle(paper) /\ paper.pdfUrl
        kept == SelectSeq(papers, linked)
    IN  [k \in 1 .. Len(kept) |-> ProcessPaper(kept[k], extracted)]

ProcessTopic(papers, extracted) ==
    LET kept == SelectSeq(papers, HasTitle)
    IN  [k \in 1 .. Len(kept) |-> ProcessPaper(kept[k], extracted)]

(* Mutant of ProcessPapers: a topic without papers gets no entry *)
ProcessPapersNonEmpty(papersByTopic, extracted) ==
    [t \in {u \in DOMAIN papersByTopic : papersByTopic[u] # <<>>} |->
        ProcessTopic(papersByTopic[t], extracted)]

(* pdfProcessorService.processPapers *)
ProcessPapers(papersByTopic, extracted) ==
    [t \in DOMAIN papersByTopic |-> ProcessTopic(papersByTopic[t], extracted)]

(* Object.values(papersByTopic).reduce((sum, papers) => sum + papers.length, 0) *)
TotalPapers(papersByTopic) == SumLen(papersByTopic, DOMAIN papersByTopic)

(* if (paper.title && paper.authors && paper.abstract) *)
ValidForAnalysis(paper) ==
    paper.title # "" /\ paper.authors # "" /\ paper.abstract # ""

(* paperSummaries.length *)
PaperSummaries(processedPapers) ==
    SumLen([t \in DOMAIN processedPapers |->
                SelectSeq(processedPapers[t], ValidForAnalysis)],
           DOMAIN processedPapers)

-----------------------------------------------------------------------------
(* Messages *)

MsgExpanding == "Expanding research query"
MsgSearching == "Searching Google Scholar"
MsgSearchingFor(topic) == "Searching for: " \o topic
MsgProcessing == "Processing PDFs"
MsgEarlierSearchingFor(topic) == "Searching for papers on: " \o topic
MsgEarlierProcessing == "Downloading and processing papers"
MsgEarlierNoPapers == "Error: No research papers found for any topic"
MsgAnalyzing == "Generating research analysis"
MsgCompleted == "Research analysis completed"

(* `Error: ${error.message}` for each error the processor can catch *)
ErrorMessage(cause) ==
    CASE cause = "expand"   -> "Error: Failed to expand research query"
      [] cause = "nopapers" -> "Error: No research papers could be found for the given topics."
      [] cause = "analysis" -> "Error: Failed to generate research analysis"
      [] cause = "process"  -> "Error: browserType.launch: Executable doesn't exist"
      [] cause = "novalid"  -> "Error: Failed to generate research analysis: No valid papers found for analysis"
      [] OTHER              -> "Error: Connection is closed."

-----------------------------------------------------------------------------
(* The Job Store: the Maps `jobs` and `results` *)

MapSet(m, k, v) == [x \in DOMAIN m \cup {k} |-> IF x = k THEN v ELSE m[x]]

EmptyMap == [x \in {} |-> 0]

(* Mutant of NewJob: the record is created as if the processor had started *)
NewJobStarted(jobId, query, now) ==
    [id |-> jobId, status |-> "processing", progress |-> Num(ProgressExpanding),
     createdAt |-> now, query |-> query,
     message |-> UNDEFINED, updatedAt |-> NoDate]

(* jobs.set(jobId, { id, status: "queued", progress: 0, createdAt, query }) *)
NewJob(jobId, query, now) ==
    [id |-> jobId, status |-> "queued", progress |-> Num(ProgressQueued),
     createdAt |-> now, query |-> query,
     message |-> UNDEFINED, updatedAt |-> NoDate]

(* Mutant of updateJobStatus: the update is written to every record *)
updateEveryJob(js, jobId, status, progress, message, now) ==
    IF jobId \in DOMAIN js
    THEN [x \in DOMAIN js |-> [js[x] EXCEPT !.status = status,
                                            !.progress = progress,
                                            !.message = message,
                                            !.updatedAt = now]]
    ELSE js

(* Mutant of updateJobStatus: the record is built anew, without `...job` *)
updateJobStatusAnew(js, jobId, status, progress, message, now) ==
    IF jobId \in DOMAIN js
    THEN MapSet(js, jobId, [js[jobId] EXCEPT !.status = status,
                                             !.progress = progress,
                                             !.message = message,
                                             !.createdAt = now,
                                             !.query = UNDEFINED,
                                             !.updatedAt = now])
    ELSE js

(* function updateJobStatus(jobId, status, progress, message) *)
updateJobStatus(js, jobId, status, progress, message, now) ==
    IF jobId \in DOMAIN js
    THEN MapSet(js, jobId, [js[jobId] EXCEPT !.status = status,
                                             !.progress = progress,
                                             !.message = message,
                                             !.updatedAt = now])
    ELSE js

(* Mutant of NewResult: the last topic is left out of the stored topic list *)
NewResultShort(query, expandedTopics, processedPapers, analysis) ==
    [query |-> query,
     expandedTopics |-> SubSeq(expandedTopics, 1, Len(expandedTopics) - 1),
     papersByTopic |-> processedPapers, analysis |-> analysis]

(* results.set(jobId, { query, expandedTopics, papersByTopic, analysis }) *)
NewResult(query, expandedTopics, processedPapers, analysis) ==
    [query |-> query, expandedTopics |-> expandedTopics,
     papersByTopic |-> processedPapers, analysis |-> analysis]

PutResult(rs, jobId, result) == MapSet(rs, jobId, result)

(* new Date(): time does not run backwards *)
Dates == IF env \in Scripts THEN {t \in {clock, clock + 1} : t <= MaxClock}
         ELSE {clock}

-----------------------------------------------------------------------------
(* The facade: the three HTTP handlers *)

(* if (!query) *)
Falsy(query) == query \in {NoQuery, ""}

(* Mutant of StatusReply: updatedAt is sent as stored, without `|| createdAt` *)
StatusReplyNoFallback(js, jobId) ==
    IF jobId \notin DOMAIN js
    THEN [op |-> "status", jobId |-> jobId, code |-> 404, message |-> "Job not found"]
    ELSE [op |-> "status", jobId |-> jobId, code |-> 200,
          status |-> js[jobId].status,
          progress |-> js[jobId].progress,
          message |-> IF js[jobId].message = UNDEFINED THEN "" ELSE js[jobId].message,
          createdAt |-> js[jobId].createdAt,
          updatedAt |-> js[jobId].updatedAt]

(* getResearchStatus *)
StatusReply(js, jobId) ==
    IF jobId \notin DOMAIN js
    THEN [op |-> "status", jobId |-> jobId, code |-> 404, message |-> "Job not found"]
    ELSE [op |-> "status", jobId |-> jobId, code |-> 200,
          status |-> js[jobId].status,
          progress |-> js[jobId].progress,
          message |-> IF js[jobId].message = UNDEFINED THEN "" ELSE js[jobId].message,
          createdAt |-> js[jobId].createdAt,
          updatedAt |-> IF js[jobId].updatedAt = NoDate
                        THEN js[jobId].createdAt ELSE js[jobId].updatedAt]

(* Mutant of ResultsReply: the status of the job is not looked at *)
ResultsReplyAnyStatus(js, rs, jobId) ==
    IF jobId \notin DOMAIN js
    THEN [op |-> "results", jobId |-> jobId, code |-> 404, message |-> "Job not found"]
    ELSE IF jobId \notin DOMAIN rs
    THEN [op |-> "results", jobId |-> jobId, code |-> 404, message |-> "Results not found"]
    ELSE [op |-> "results", jobId |-> jobId, code |-> 200, body |-> rs[jobId]]

(* getResearchResults *)
ResultsReply(js, rs, jobId) ==
    IF jobId \notin DOMAIN js
    THEN [op |-> "results", jobId |-> jobId, code |-> 404, message |-> "Job not found"]
    ELSE IF js[jobId].status # "completed"
    THEN [op |-> "results", jobId |-> jobId, code |-> 400,
          message |-> "Job is not completed yet", status |-> js[jobId].status]
    ELSE IF jobId \notin DOMAIN rs
    THEN [op |-> "results", jobId |-> jobId, code |-> 404, message |-> "Results not found"]
    ELSE [op |-> "results", jobId |-> jobId, code |-> 200, body |-> rs[jobId]]

(* researchQueue.add("process-research", { jobId, query }, { attempts: 2, ... }) *)
NewBullJob(jobId, query) ==
    [data |-> [jobId |-> jobId, query |-> query], attemptsMade |-> 0, state |-> "waiting"]

(* uuidv4(): an id that neither a job nor a unit of work has.  Ids are       *)
(* opaque, so the least unused number stands for it.                         *)
uuidv4 ==
    LET used == DOMAIN jobs \cup DOMAIN bull
    IN  CHOOSE id \in 1 .. Cardinality(used) + 1 :
            id \notin used /\ \A k \in 1 .. id - 1 : k \in used

(* startResearch.  addOk tells whether researchQueue.add resolved (it        *)
(* rejects when Redis cannot be reached).                                    *)
startResearch(query, addOk) ==
    IF Falsy(query)
    THEN UNCHANGED vars
    ELSE \E now \in Dates :
         LET jobId == uuidv4 IN
            /\ Cardinality(DOMAIN jobs) < JobLimit
            /\ clock' = now
            /\ jobs' = MapSet(jobs, jobId, NewJob(jobId, query, now))
            /\ IF addOk
               THEN /\ bull' = MapSet(bull, jobId, NewBullJob(jobId, query))
                    /\ waiting' = Append(waiting, jobId)
               ELSE UNCHANGED <<bull, waiting>>
            /\ UNCHANGED <<results, execs, timeouts, runs, expanded, last, env>>

Submit ==
    \E query \in QueryInputs, addOk \in BOOLEAN :
        /\ env \in Scripts => addOk
        /\ startResearch(query, addOk)

getResearchStatus(jobId) ==
    /\ StatusReply(jobs, jobId).code \in {200, 404}
    /\ UNCHANGED vars

GetStatus == \E jobId \in JobIds : getResearchStatus(jobId)

(* Mutant of getResearchResults: a result is handed out once and then dropped *)
getResearchResultsOnce(jobId) ==
    /\ ResultsReply(jobs, results, jobId).code \in {200, 400, 404}
    /\ results' = IF ResultsReply(jobs, results, jobId).code = 200
                  THEN [x \in DOMAIN results \ {jobId} |-> results[x]]
                  ELSE results
    /\ UNCHANGED <<jobs, bull, waiting, execs, clock, timeouts, runs, expanded,
                   last, env>>

getResearchResults(jobId) ==
    /\ ResultsReply(jobs, results, jobId).code \in {200, 400, 404}
    /\ UNCHANGED vars

GetResults == \E jobId \in JobIds : getResearchResults(jobId)

-----------------------------------------------------------------------------
(* Bull.  researchQueue.process registers one processor with the default     *)
(* concurrency of 1.  A job that fails or runs longer than `timeout` is       *)
(* moved to failed; it is retried after the backoff delay while attemptsMade  *)
(* is below `attempts`.  Bull cannot cancel a processor: an invocation cut by *)
(* the timeout keeps running, its outcome is ignored.                         *)

(* Mutant of MoveToFailed: a failed attempt is never retried *)
MoveToFailedNoRetry(b) ==
    [b EXCEPT !.attemptsMade = @ + 1, !.state = "failed"]

(* Mutant of MoveToFailed: one attempt more than configured *)
MoveToFailedOneMore(b) ==
    [b EXCEPT !.attemptsMade = @ + 1,
              !.state = IF b.attemptsMade + 1 < Attempts + 1 THEN "delayed" ELSE "failed"]

(* Job.moveToFailed under { attempts: 2, backoff } *)
MoveToFailed(b) ==
    [b EXCEPT !.attemptsMade = @ + 1,
              !.state = IF b.attemptsMade + 1 < Attempts THEN "delayed" ELSE "failed"]

MoveToCompleted(b) == [b EXCEPT !.state = "completed"]

(* The invocations Bull is waiting for *)
Owned == {e \in DOMAIN execs : execs[e].owned}

MapRemove(m, k) == [x \in DOMAIN m \ {k} |-> m[x]]

(* A new invocation of the processor, stopped at its first await: the code   *)
(* up to `await job.progress(10)` has run.                                   *)
NewExec(b) ==
    [jobId |-> b.data.jobId, query |-> b.data.query, attempt |-> b.attemptsMade + 1,
     pc |-> "expand", expandedTopics |-> <<>>, i |-> 0,
     papersByTopic |-> EmptyMap, owned |-> TRUE]

(* What is remembered of invocation x when it throws (cause) or completes    *)
(* the job ("none"): the number of topics it got and the number of calls of  *)
(* searchScholar it made.                                                    *)
Audit(x, cause) ==
    [cause |-> cause, topics |-> Len(x.expandedTopics), searched |-> x.i]

NoAudit == [cause |-> "", topics |-> 0, searched |-> 0]

(* Bull takes the oldest waiting job and calls the processor, which runs to  *)
(* its first await: updateJobStatus(jobId, "processing", 10, ...)            *)
Dispatch ==
    /\ waiting # <<>>
    /\ Owned = {}
    /\ LET jobId == Head(waiting) IN
       \E now \in Dates :
          /\ clock' = now
          /\ waiting' = Tail(waiting)
          /\ bull' = [bull EXCEPT ![jobId].state = "active"]
          /\ execs' = MapSet(execs, <<jobId, bull[jobId].attemptsMade + 1>>,
                              NewExec(bull[jobId]))
          /\ runs' = [runs EXCEPT ![jobId] = @ + 1]
          /\ last' = [last EXCEPT ![jobId] = NoAudit]
          /\ jobs' = updateJobStatus(jobs, jobId, "processing",
                                     Num(ProgressExpanding), MsgExpanding, now)
    /\ UNCHANGED <<results, timeouts, expanded, env>>

(* The backoff delay of a failed attempt is over: back to the wait list *)
Promote ==
    \E jobId \in DOMAIN bull :
        /\ bull[jobId].state = "delayed"
        /\ bull' = [bull EXCEPT ![jobId].state = "waiting"]
        /\ waiting' = Append(waiting, jobId)
            /\ UNCHANGED <<jobs, results, execs, clock, timeouts, runs, expanded, last, env>>

(* whether the pending call of a timed-out invocation never settles *)
HangOutcomes == IF env = "free" THEN BOOLEAN ELSE {FALSE}

(* The job timeout (timeout: 600000) fires while the processor is running.   *)
(* Bull fails the attempt; the invocation is not told.  Its pending call     *)
(* either settles later, and the invocation goes on, or never settles        *)
(* (hung): an invocation that takes no further step is dropped.              *)
Timeout ==
    \E e \in Owned, hung \in HangOutcomes :
        /\ env \notin Scripts
        /\ timeouts < MaxTimeouts
        /\ timeouts' = timeouts + 1
        /\ execs' = IF hung THEN MapRemove(execs, e)
                            ELSE [execs EXCEPT ![e].owned = FALSE]
        /\ bull' = [bull EXCEPT ![execs[e].jobId] = MoveToFailed(@)]
        /\ UNCHANGED <<jobs, results, waiting, clock, runs, expanded, last, env>>

(* What Bull does when invocation e settles *)
Settled(e, ok) ==
    IF execs[e].owned
    THEN [bull EXCEPT ![execs[e].jobId] =
              IF ok THEN MoveToCompleted(@) ELSE MoveToFailed(@)]
    ELSE bull

(* Mutant of Catch: the failure is written with the progress reached so far *)
CatchKeepingProgress(e, x, cause, now) ==
    /\ jobs' = updateJobStatus(jobs, x.jobId, "failed",
                               IF x.jobId \in DOMAIN jobs THEN jobs[x.jobId].progress
                               ELSE Num(ProgressFailed),
                               ErrorMessage(cause), now)
    /\ execs' = MapRemove(execs, e)
    /\ bull' = Settled(e, FALSE)
    /\ last' = [last EXCEPT ![x.jobId] = Audit(x, cause)]
    /\ UNCHANGED <<results, expanded>>

(* catch (error) { updateJobStatus(jobId, "failed", 0, `Error: ...`); throw error; } *)
(* x: the locals of invocation e when the error is thrown                    *)
Catch(e, x, cause, now) ==
    /\ jobs' = updateJobStatus(jobs, x.jobId, "failed", Num(ProgressFailed),
                               ErrorMessage(cause), now)
    /\ execs' = MapRemove(execs, e)
    /\ bull' = Settled(e, FALSE)
    /\ last' = [last EXCEPT ![x.jobId] = Audit(x, cause)]
    /\ UNCHANGED <<results, expanded>>

-----------------------------------------------------------------------------
(* What the calls of the processor may do in each environment               *)

ExpanderFails(attempt) ==
    CASE env = "failNone"   -> FALSE
      [] env = "failOnce"   -> attempt <= 1
      [] env = "failTwice"  -> attempt <= 2
      [] OTHER                 -> TRUE

(* A call either rejects or resolves to a value *)
Rejects == [ok |-> FALSE]
Resolves(value) == [ok |-> TRUE, value |-> value]

(* await job.progress(...): rejects when Redis cannot be reached *)
ProgressOutcomes == IF env = "free" THEN {"ok", "redis"} ELSE {"ok"}

ExpandOutcomes(attempt) ==
    CASE env = "free" -> {Rejects} \cup {Resolves(t) : t \in TopicLists}
      [] env = "many" -> {Rejects, Resolves(<<"a">>)}
      [] env = "stale" -> {Rejects, Resolves(<<"a">>)}
      [] env = "papers" -> {Resolves(<<"a">>)}
      [] env = "search" -> {Resolves(t) : t \in TopicLists}
      [] env = "long" -> {Resolves(t) : t \in LongTopicLists}
      [] OTHER -> IF ExpanderFails(attempt) THEN {Rejects} ELSE {Resolves(<<"a">>)}

SearchOutcomes ==
    CASE env = "free" -> {Rejects} \cup {Resolves(r) : r \in SearchResults}
      [] env = "search" -> {Rejects, Resolves(<<GoodPaper>>)}
      [] env = "long" -> {Rejects, Resolves(<<GoodPaper>>)}
      [] env = "earlier" -> {Resolves(<<GoodPaper>>)}
      [] env = "papers" -> {Resolves(r) : r \in PaperLists}
      [] OTHER -> {Resolves(<<GoodPaper>>)}

(* whether the PDFs could be downloaded and parsed *)
ExtractOutcomes == IF env \in {"free", "papers"} THEN BOOLEAN ELSE {TRUE}

(* processPapers.  The service of pdfProcessorService.js catches every       *)
(* download and parse error and always resolves; the Playwright version of   *)
(* the service launches a browser before its try block and rejects when the  *)
(* browser cannot be started.                                                *)
ProcessOutcomes ==
    (IF env = "free" THEN {Rejects} ELSE {}) \cup {Resolves(x) : x \in ExtractOutcomes}

AnalysisOutcomes ==
    IF env \in {"free", "papers"} THEN {Rejects, Resolves("analysis")}
    ELSE {Resolves("analysis")}

-----------------------------------------------------------------------------
(* The processor, researchQueue.process("process-research", async (job) => ...) *)

(* lines 169-174: await job.progress(10); expandQuery; status 20 *)
ExpandStep(e, reported, outcome, now) ==
    /\ execs[e].pc = "expand"
    /\ clock' = now
    /\ IF reported # "ok" THEN Catch(e, execs[e], "redis", now)
       ELSE IF ~outcome.ok THEN Catch(e, execs[e], "expand", now)
       ELSE /\ jobs' = updateJobStatus(jobs, execs[e].jobId, "processing",
                                       Num(ProgressSearching), MsgSearching, now)
            /\ execs' = [execs EXCEPT ![e].pc = "search", ![e].expandedTopics = outcome.value]
            /\ UNCHANGED <<results, bull, expanded, last>>
    /\ UNCHANGED <<waiting, timeouts, runs, env>>

Expand ==
    \E e \in DOMAIN execs, reported \in ProgressOutcomes, now \in Dates :
        \E outcome \in ExpandOutcomes(execs[e].attempt) :
            ExpandStep(e, reported, outcome, now)

(* Mutant of LoopHead: the total number of papers is not looked at *)
LoopHeadAnyTotal(e, x, now) ==
    IF x.i < Len(x.expandedTopics)
    THEN /\ jobs' = updateJobStatus(jobs, x.jobId, "processing",
                        SearchProgress(x.i, Len(x.expandedTopics)),
                        MsgSearchingFor(x.expandedTopics[x.i + 1]), now)
         /\ execs' = [execs EXCEPT ![e] = [x EXCEPT !.pc = "searchTopic"]]
         /\ UNCHANGED <<results, bull, expanded, last>>
    ELSE /\ jobs' = updateJobStatus(jobs, x.jobId, "processing",
                                    Num(ProgressProcessing), MsgProcessing, now)
         /\ execs' = [execs EXCEPT ![e] = [x EXCEPT !.pc = "process"]]
         /\ UNCHANGED <<results, bull, expanded, last>>

(* The head of the loop for topic i, or the code after the loop:             *)
(* lines 177-181 (status of topic i), lines 191-202 (total, status 50)       *)
LoopHead(e, x, now) ==
    IF x.i < Len(x.expandedTopics)
    THEN /\ jobs' = updateJobStatus(jobs, x.jobId, "processing",
                        SearchProgress(x.i, Len(x.expandedTopics)),
                        MsgSearchingFor(x.expandedTopics[x.i + 1]), now)
         /\ execs' = [execs EXCEPT ![e] = [x EXCEPT !.pc = "searchTopic"]]
         /\ UNCHANGED <<results, bull, expanded, last>>
    ELSE IF TotalPapers(x.papersByTopic) = 0
    THEN Catch(e, x, "nopapers", now)
    ELSE /\ jobs' = updateJobStatus(jobs, x.jobId, "processing",
                                    Num(ProgressProcessing), MsgProcessing, now)
         /\ execs' = [execs EXCEPT ![e] = [x EXCEPT !.pc = "process"]]
         /\ UNCHANGED <<results, bull, expanded, last>>

(* line 174: await job.progress(20), then the loop is entered *)
SearchStep(e, reported, now) ==
    /\ execs[e].pc = "search"
    /\ clock' = now
    /\ IF reported # "ok" THEN Catch(e, execs[e], "redis", now)
       ELSE LoopHead(e, execs[e], now)
    /\ UNCHANGED <<waiting, timeouts, runs, env>>

Search ==
    \E e \in DOMAIN execs, reported \in ProgressOutcomes, now \in Dates :
        SearchStep(e, reported, now)

(* Mutant of SearchTopicStep: a rejected search is not caught in the loop *)
SearchTopicStepFatal(e, reported, outcome, now) ==
    /\ execs[e].pc = "searchTopic"
    /\ clock' = now
    /\ IF reported # "ok" THEN Catch(e, execs[e], "redis", now)
       ELSE IF ~outcome.ok THEN Catch(e, execs[e], "nopapers", now)
       ELSE LET x == execs[e]
                topic == x.expandedTopics[x.i + 1]
            IN  LoopHead(e, [x EXCEPT !.papersByTopic = MapSet(@, topic, outcome.value),
                                      !.i = @ + 1], now)
    /\ UNCHANGED <<waiting, timeouts, runs, env>>

(* Mutant of SearchTopicStep: the loop steps over the topic after this one *)
SearchTopicStepSkip(e, reported, outcome, now) ==
    /\ execs[e].pc = "searchTopic"
    /\ clock' = now
    /\ IF reported # "ok" THEN Catch(e, execs[e], "redis", now)
       ELSE LET x == execs[e]
                topic == x.expandedTopics[x.i + 1]
                papers == IF outcome.ok THEN outcome.value ELSE <<>>
            IN  LoopHead(e, [x EXCEPT !.papersByTopic = MapSet(@, topic, papers),
                                      !.i = IF @ + 2 < Len(x.expandedTopics)
                                            THEN @ + 2 ELSE Len(x.expandedTopics)], now)
    /\ UNCHANGED <<waiting, timeouts, runs, env>>

(* lines 181-189: await job.progress(progress); searchScholar(topic, 5);     *)
(* a failed search leaves an empty list for the topic                        *)
SearchTopicStep(e, reported, outcome, now) ==
    /\ execs[e].pc = "searchTopic"
    /\ clock' = now
    /\ IF reported # "ok" THEN Catch(e, execs[e], "redis", now)
       ELSE LET x == execs[e]
                topic == x.expandedTopics[x.i + 1]
                papers == IF outcome.ok THEN outcome.value ELSE <<>>
            IN  LoopHead(e, [x EXCEPT !.papersByTopic = MapSet(@, topic, papers),
                                      !.i = @ + 1], now)
    /\ UNCHANGED <<waiting, timeouts, runs, env>>

SearchTopic ==
    \E e \in DOMAIN execs, reported \in ProgressOutcomes,
       outcome \in SearchOutcomes, now \in Dates :
        SearchTopicStep(e, reported, outcome, now)

(* lines 202-211: await job.progress(50); processPapers; status 90.          *)
(* The processed papers replace the found ones in the invocation's state.    *)
ProcessStep(e, reported, outcome, now) ==
    /\ execs[e].pc = "process"
    /\ clock' = now
    /\ IF reported # "ok" THEN Catch(e, execs[e], "redis", now)
       ELSE IF ~outcome.ok THEN Catch(e, execs[e], "process", now)
       ELSE /\ jobs' = updateJobStatus(jobs, execs[e].jobId, "processing",
                                       Num(ProgressAnalyzing), MsgAnalyzing, now)
            /\ execs' = [execs EXCEPT ![e].pc = "analyze",
                             ![e].papersByTopic = ProcessPapers(@, outcome.value)]
            /\ UNCHANGED <<results, bull, expanded, last>>
    /\ UNCHANGED <<waiting, timeouts, runs, env>>

Process ==
    \E e \in DOMAIN execs, reported \in ProgressOutcomes,
       outcome \in ProcessOutcomes, now \in Dates :
        ProcessStep(e, reported, outcome, now)

(* Mutant of AnalyzeStep: generateResearchAnalysis does not look for valid   *)
(* papers before it asks for the analysis                                    *)
AnalyzeStepAnyPapers(e, reported, outcome, now) ==
    /\ execs[e].pc = "analyze"
    /\ clock' = now
    /\ LET x == execs[e] IN
       IF reported # "ok" THEN Catch(e, x, "redis", now)
       ELSE IF ~outcome.ok THEN Catch(e, x, "analysis", now)
       ELSE /\ results' = PutResult(results, x.jobId,
                              NewResult(x.query, x.expandedTopics, x.papersByTopic,
                                        outcome.value))
            /\ jobs' = updateJobStatus(jobs, x.jobId, "completed",
                                       Num(ProgressCompleted), MsgCompleted, now)
            /\ expanded' = [expanded EXCEPT ![x.jobId] = x.expandedTopics]
            /\ last' = [last EXCEPT ![x.jobId] = Audit(x, "none")]
            /\ execs' = [execs EXCEPT ![e].pc = "report"]
            /\ UNCHANGED bull
    /\ UNCHANGED <<waiting, timeouts, runs, env>>

(* lines 211-227: await job.progress(90); generateResearchAnalysis;          *)
(* results.set; status "completed"                                           *)
AnalyzeStep(e, reported, outcome, now) ==
    /\ execs[e].pc = "analyze"
    /\ clock' = now
    /\ LET x == execs[e] IN
       IF reported # "ok" THEN Catch(e, x, "redis", now)
       ELSE IF PaperSummaries(x.papersByTopic) = 0 THEN Catch(e, x, "novalid", now)
       ELSE IF ~outcome.ok THEN Catch(e, x, "analysis", now)
       ELSE /\ results' = PutResult(results, x.jobId,
                              NewResult(x.query, x.expandedTopics, x.papersByTopic,
                                        outcome.value))
            /\ jobs' = updateJobStatus(jobs, x.jobId, "completed",
                                       Num(ProgressCompleted), MsgCompleted, now)
            /\ expanded' = [expanded EXCEPT ![x.jobId] = x.expandedTopics]
            /\ last' = [last EXCEPT ![x.jobId] = Audit(x, "none")]
            /\ execs' = [execs EXCEPT ![e].pc = "report"]
            /\ UNCHANGED bull
    /\ UNCHANGED <<waiting, timeouts, runs, env>>

Analyze ==
    \E e \in DOMAIN execs, reported \in ProgressOutcomes,
       outcome \in AnalysisOutcomes, now \in Dates :
        AnalyzeStep(e, reported, outcome, now)

(* lines 228-231: await job.progress(100); return { success: true } *)
ReportStep(e, reported, now) ==
    /\ execs[e].pc = "report"
    /\ clock' = now
    /\ IF reported # "ok" THEN Catch(e, execs[e], "redis", now)
       ELSE /\ execs' = MapRemove(execs, e)
            /\ bull' = Settled(e, TRUE)
            /\ UNCHANGED <<jobs, results, expanded, last>>
    /\ UNCHANGED <<waiting, timeouts, runs, env>>

Report ==
    \E e \in DOMAIN execs, reported \in ProgressOutcomes, now \in Dates :
        ReportStep(e, reported, now)

-----------------------------------------------------------------------------
(* The search loop of the earlier version of the controller                  *)
(* (src/unnamed/part_003 lines 273-331).  An invocation at "earlierTopic"    *)
(* waits for searchScholar(topic i + 1); the status of that topic is written *)
(* already.  What follows the loop in that version is not modelled: an       *)
(* invocation that left the loop stays at "earlierProcess".                  *)

(* Job.moveToFailed under { attempts: 3, backoff } *)
EarlierMoveToFailed(b) ==
    [b EXCEPT !.attemptsMade = @ + 1,
              !.state = IF b.attemptsMade + 1 < EarlierAttempts THEN "delayed" ELSE "failed"]

(* searchScholar settles for topic i + 1; then the head of the loop for the  *)
(* next topic (lines 278-289), or the code after the loop (lines 310-331)    *)
EarlierSearchTopicStep(e, outcome, now) ==
    /\ env = "earlier"
    /\ execs[e].pc = "earlierTopic"
    /\ clock' = now
    /\ LET x == execs[e]
           n == Len(x.expandedTopics)
           papers == IF outcome.ok THEN outcome.value ELSE <<>>
           y == [x EXCEPT !.papersByTopic = MapSet(@, x.expandedTopics[x.i + 1], papers),
                          !.i = @ + 1]
       IN  IF y.i < n
           THEN /\ jobs' = updateJobStatus(jobs, y.jobId, "processing",
                               EarlierProgress(y.i, n),
                               MsgEarlierSearchingFor(y.expandedTopics[y.i + 1]), now)
                /\ execs' = [execs EXCEPT ![e] = y]
                /\ UNCHANGED bull
           ELSE IF TotalPapers(y.papersByTopic) = 0
           THEN /\ jobs' = updateJobStatus(jobs, y.jobId, "failed", Num(ProgressFailed),
                                           MsgEarlierNoPapers, now)
                /\ execs' = MapRemove(execs, e)
                /\ bull' = [bull EXCEPT ![y.jobId] = EarlierMoveToFailed(@)]
           ELSE /\ jobs' = updateJobStatus(jobs, y.jobId, "processing",
                               Num(EarlierProcessing), MsgEarlierProcessing, now)
                /\ execs' = [execs EXCEPT ![e] = [y EXCEPT !.pc = "earlierProcess"]]
                /\ UNCHANGED bull
    /\ UNCHANGED <<results, waiting, timeouts, runs, expanded, last, env>>

EarlierSearchTopic ==
    \E e \in DOMAIN execs, outcome \in SearchOutcomes, now \in Dates :
        EarlierSearchTopicStep(e, outcome, now)

-----------------------------------------------------------------------------
(* The system *)

InitStore ==
    /\ jobs = EmptyMap
    /\ results = EmptyMap
    /\ bull = EmptyMap
    /\ waiting = <<>>
    /\ execs = EmptyMap
    /\ clock = 0
    /\ timeouts = 0
    /\ runs = [j \in JobIds |-> 0]
    /\ expanded = [j \in JobIds |-> <<>>]
    /\ last = [j \in JobIds |-> NoAudit]

Init == InitStore /\ env = "free"

InitMany == InitStore /\ env = "many"

InitScripted == InitStore /\ env \in Scripts

InitSearch == InitStore /\ env = "search"

InitLong == InitStore /\ env = "long"

InitPapers == InitStore /\ env = "papers"

(* The earlier processor at its first call of searchScholar: the job was     *)
(* submitted and dispatched, expandQuery returned n topics, the status of    *)
(* topic 1 is written.                                                       *)
InitEarlier ==
    \E n \in 1 .. MaxEarlierTopics :
        LET topics == [k \in 1 .. n |-> ToString(k)]
            b == [NewBullJob(1, "q") EXCEPT !.state = "active"]
        IN  /\ jobs = updateJobStatus(MapSet(EmptyMap, 1, NewJob(1, "q", 0)), 1,
                          "processing", EarlierProgress(0, n),
                          MsgEarlierSearchingFor(topics[1]), 0)
            /\ results = EmptyMap
            /\ bull = MapSet(EmptyMap, 1, b)
            /\ waiting = <<>>
            /\ execs = MapSet(EmptyMap, <<1, 1>>,
                          [NewExec(b) EXCEPT !.pc = "earlierTopic",
                                             !.expandedTopics = topics])
            /\ clock = 0
            /\ timeouts = 0
            /\ runs = [j \in JobIds |-> IF j = 1 THEN 1 ELSE 0]
            /\ expanded = [j \in JobIds |-> <<>>]
            /\ last = [j \in JobIds |-> NoAudit]
            /\ env = "earlier"

(* new Queue("research-queue", { redis }) on a Redis that holds a waiting    *)
(* job of an earlier run; const jobs = new Map() is empty                    *)
InitStale ==
    /\ jobs = EmptyMap
    /\ results = EmptyMap
    /\ bull = MapSet(EmptyMap, 1, NewBullJob(1, "q"))
    /\ waiting = <<1>>
    /\ execs = EmptyMap
    /\ clock = 0
    /\ timeouts = 0
    /\ runs = [j \in JobIds |-> 0]
    /\ expanded = [j \in JobIds |-> <<>>]
    /\ last = [j \in JobIds |-> NoAudit]
    /\ env = "stale"

Step ==
    \/ Dispatch
    \/ Promote
    \/ Expand
    \/ Search
    \/ SearchTopic
    \/ Process
    \/ Analyze
    \/ Report

Next ==
    \/ Submit
    \/ GetStatus
    \/ GetResults
    \/ Timeout
    \/ Step

Spec == Init /\ [][Next]_vars

SpecMany == InitMany /\ [][Next]_vars

(* Under a script no attempt is timed out.  Node's event loop runs every     *)
(* callback that is ready, Bull hands a waiting job to the idle processor    *)
(* and promotes a delayed job when its backoff is over: the steps of the     *)
(* queue and of the processor are weakly fair.  Requests are not.            *)
NextScripted ==
    \/ Submit
    \/ GetStatus
    \/ GetResults
    \/ Step

SpecScripted == InitScripted /\ [][NextScripted]_vars /\ WF_vars(Step)

SpecSearch == InitSearch /\ [][NextScripted]_vars /\ WF_vars(Step)

SpecLong == InitLong /\ [][NextScripted]_vars /\ WF_vars(Step)

(* The search loop of both versions of the controller *)
NextBands ==
    \/ NextScripted
    \/ EarlierSearchTopic

InitBands == InitLong \/ InitEarlier

SpecBands == InitBands /\ [][NextBands]_vars /\ WF_vars(Step)

SpecPapers == InitPapers /\ [][NextScripted]_vars /\ WF_vars(Step)

SpecStale == InitStale /\ [][NextScripted]_vars /\ WF_vars(Step)

(* Every call may reject or resolve and attempts may be timed out, as under  *)
(* Spec; a call that does not settle is cut by the timeout (Timeout with     *)
(* hung), every other step of the queue and of the processor is taken.       *)
SpecFair == Init /\ [][Next]_vars /\ WF_vars(Step)

-----------------------------------------------------------------------------
(* The stages of the specification.  The code has one status, "processing", *)
(* for the four stages; the message written with it tells them apart.       *)

StageOf(job) ==
    CASE job.status = "queued"    -> "Queued"
      [] job.status = "completed" -> "Completed"
      [] job.status = "failed"    -> "Failed"
      [] job.status = "processing" /\ job.message = MsgExpanding  -> "Expanding"
      [] job.status = "processing" /\ job.message = MsgProcessing -> "Processing"
      [] job.status = "processing" /\ job.message = MsgAnalyzing  -> "Analyzing"
      [] OTHER -> "Searching"

StageOrder == <<"Queued", "Expanding", "Searching", "Processing", "Analyzing", "Completed">>

StageRank(stage) == CHOOSE k \in 1 .. Len(StageOrder) : StageOrder[k] = stage

Terminal(job) == job.status \in {"completed", "failed"}

Completed(jobId) ==
    /\ jobId \in DOMAIN jobs
    /\ jobs[jobId].status = "completed"
    /\ jobs[jobId].progress = Num(ProgressCompleted)
    /\ jobId \in DOMAIN results

-----------------------------------------------------------------------------
(* Claims *)

(* C1: every step that creates a job record (Submit with a non-empty query)  *)
(* creates exactly one, under an id no existing job has, leaves the others   *)
(* as they are, and the new record is queued with progress 0: GetStatus in   *)
(* the state Submit leaves answers 200 with status queued and progress 0.    *)
C1_SubmitCreatesQueuedJob ==
    [][DOMAIN jobs' # DOMAIN jobs =>
         \E id \in DOMAIN jobs' :
            /\ id \notin DOMAIN jobs
            /\ DOMAIN jobs' = DOMAIN jobs \cup {id}
            /\ \A j \in DOMAIN jobs : jobs'[j] = jobs[j]
            /\ jobs'[id].id = id
            /\ jobs'[id].status = "queued"
            /\ jobs'[id].progress = Num(0)
            /\ StatusReply(jobs', id).code = 200
            /\ StatusReply(jobs', id).status = "queued"
            /\ StatusReply(jobs', id).progress = Num(0)]_vars

(* C1 witness: a second job has just been created next to an existing one *)
C1_Witness ==
    /\ Cardinality(DOMAIN jobs) = 2
    /\ \E j \in DOMAIN jobs : jobs[j].status = "queued" /\ jobs[j].updatedAt = NoDate
    /\ \E j \in DOMAIN jobs : jobs[j].status # "queued"

(* C2 (as claimed): every write to a job keeps its stage, moves it to the    *)
(* next stage of Queued, Expanding, Searching, Processing, Analyzing,        *)
(* Completed, or moves it to Failed; nothing follows Failed.                 *)
C2_StagesInOrder ==
    [][\A j \in DOMAIN jobs :
          LET old == StageOf(jobs[j])
              new == StageOf(jobs'[j])
          IN  \/ new = old
              \/ old # "Failed" /\ new = "Failed"
              \/ /\ old \notin {"Failed", "Completed"}
                 /\ new # "Failed"
                 /\ StageRank(new) = StageRank(old) + 1]_vars

(* C3 (as claimed): once a job is completed or failed, its status and its    *)
(* progress never change.                                                    *)
C3_TerminalAbsorbing ==
    [][\A j \in DOMAIN jobs :
          Terminal(jobs[j]) =>
              /\ jobs'[j].status = jobs[j].status
              /\ jobs'[j].progress = jobs[j].progress]_vars

(* C4 (as claimed): a write whose status is not failed does not decrease     *)
(* progress, and a write of failed sets progress to 0.                       *)
C4_ProgressMonotone ==
    [][\A j \in DOMAIN jobs :
          jobs'[j] # jobs[j] =>
              IF jobs'[j].status = "failed"
              THEN jobs'[j].progress = Num(0)
              ELSE Leq(jobs[j].progress, jobs'[j].progress)]_vars

(* C5 (as claimed): when the expander rejects in the first two attempts and  *)
(* resolves afterwards, the job eventually is completed with progress 100    *)
(* and a stored result.                                                      *)
C5_FailTwiceCompletes ==
    \A j \in JobIds : (env = "failTwice" /\ j \in DOMAIN jobs) ~> Completed(j)

(* C5 (amended): when the expander rejects in the first attempt only (one    *)
(* less than the 2 attempts the job is enqueued with) and every other call   *)
(* resolves in time, the job eventually is completed with progress 100 and   *)
(* a stored result.                                                          *)
C5_FailOnceCompletes ==
    \A j \in JobIds : (env = "failOnce" /\ j \in DOMAIN jobs) ~> Completed(j)

(* C5 witness: a job completed by its second attempt *)
C5_Witness ==
    \E j \in DOMAIN jobs : env = "failOnce" /\ Completed(j) /\ runs[j] = 2

(* C6 (as claimed): when the expander always rejects, the processor has run  *)
(* 3 times for a job whose attempts are exhausted.                           *)
C6_ThreeRuns ==
    \A j \in DOMAIN bull :
        (env = "failAlways" /\ bull[j].state = "failed") => runs[j] = 3

(* C6 (amended): when the expander always rejects, the processor is run for  *)
(* a job never more than 2 times (attempts: 2); the job's attempts get       *)
(* exhausted, and then it has run exactly 2 times and the job is failed and  *)
(* stays failed.                                                             *)
C6_TwoRunsThenFailed ==
    /\ [](\A j \in DOMAIN bull :
            env = "failAlways" =>
                /\ runs[j] <= Attempts
                /\ bull[j].state = "failed" =>
                       runs[j] = Attempts /\ jobs[j].status = "failed")
    /\ [][\A j \in DOMAIN bull :
            (env = "failAlways" /\ bull[j].state = "failed") =>
                jobs'[j].status = "failed" /\ runs'[j] = runs[j]]_vars
    /\ \A j \in JobIds :
            (env = "failAlways" /\ j \in DOMAIN bull)
                ~> (j \in DOMAIN bull /\ bull[j].state = "failed")

(* C6 witness: the attempts of a job are exhausted under the failing expander *)
C6_Witness ==
    \E j \in DOMAIN bull :
        env = "failAlways" /\ bull[j].state = "failed" /\ runs[j] = Attempts

(* C7 (as claimed): a result is stored only for a job whose status is        *)
(* completed.                                                                *)
C7_ResultOnlyIfCompleted ==
    \A j \in DOMAIN results : j \in DOMAIN jobs /\ jobs[j].status = "completed"

(* C8 (as claimed): a stored result never changes.                           *)
C8_ResultWrittenOnce ==
    [][\A j \in DOMAIN results : results'[j] = results[j]]_vars

(* C9: for an id without a job record getResearchResults answers 404 "Job   *)
(* not found", for a job that is not completed 400 "not completed yet";     *)
(* neither reply carries a result, and the handler changes nothing.         *)
C9_ResultsNotFoundNotReady ==
    /\ [](\A id \in JobIds :
            LET reply == ResultsReply(jobs, results, id) IN
            /\ id \notin DOMAIN jobs =>
                   /\ reply.code = 404
                   /\ reply.message = "Job not found"
                   /\ "body" \notin DOMAIN reply
            /\ (id \in DOMAIN jobs /\ jobs[id].status # "completed") =>
                   /\ reply.code = 400
                   /\ reply.status = jobs[id].status
                   /\ "body" \notin DOMAIN reply)
    /\ [][GetResults => UNCHANGED <<jobs, results, bull, waiting>>]_vars

(* C9 witness: a job that is not completed although a result is stored for  *)
(* it, next to an id without a record                                        *)
C9_Witness ==
    /\ \E j \in DOMAIN jobs : jobs[j].status # "completed" /\ j \in DOMAIN results
    /\ \E id \in JobIds : id \notin DOMAIN jobs

(* C10: whenever a job is completed, getResearchResults answers 200 with a   *)
(* result whose query is the one Submit stored and passed to the queue, and  *)
(* whose topics are the list the expander returned to the invocation that    *)
(* completed the job.                                                        *)
C10_CompletedHasItsResult ==
    \A j \in DOMAIN jobs :
        jobs[j].status = "completed" =>
            LET reply == ResultsReply(jobs, results, j) IN
            /\ reply.code = 200
            /\ reply.body.query = jobs[j].query
            /\ reply.body.query = bull[j].data.query
            /\ reply.body.expandedTopics = expanded[j]
            /\ expanded[j] # <<>>

(* C10 witness: a job completed with two topics, after an earlier attempt    *)
C10_Witness ==
    \E j \in DOMAIN jobs :
        jobs[j].status = "completed" /\ Len(expanded[j]) = 2 /\ runs[j] = 2

(* C11 (as claimed): when expandQuery resolved to an empty list, the step    *)
(* that follows (job.progress(20) resolved) ends the attempt without a       *)
(* search, the job is failed, and the message is the one of a failed         *)
(* expansion.                                                                *)
C11_EmptyExpansionNamesExpansion ==
    [][\A e \in DOMAIN execs : \A now \in Dates :
          (/\ execs[e].pc = "search"
           /\ execs[e].expandedTopics = <<>>
           /\ SearchStep(e, "ok", now)) =>
              /\ e \notin DOMAIN execs'
              /\ last'[execs[e].jobId].searched = 0
              /\ jobs'[execs[e].jobId].status = "failed"
              /\ jobs'[execs[e].jobId].message = ErrorMessage("expand")]_vars

(* C12: processPapers is reached only with at least one paper found; and     *)
(* when the search of the last topic has been made (found or not, resolved   *)
(* or rejected) and the lists of all topics are empty, that step ends the    *)
(* attempt: the job is failed with progress 0 and the message "No research   *)
(* papers could be found for the given topics.", every topic was searched,   *)
(* and no result is stored.                                                  *)
C12_NoPapersFails ==
    /\ [](\A e \in DOMAIN execs :
             execs[e].pc = "process" => TotalPapers(execs[e].papersByTopic) > 0)
    /\ [][\A e \in DOMAIN execs : \A now \in Dates, outcome \in SearchOutcomes :
            LET x == execs[e]
                papers == IF outcome.ok THEN outcome.value ELSE <<>>
                found == MapSet(x.papersByTopic, x.expandedTopics[x.i + 1], papers)
            IN  (/\ x.pc = "searchTopic"
                 /\ x.i + 1 = Len(x.expandedTopics)
                 /\ TotalPapers(found) = 0
                 /\ SearchTopicStep(e, "ok", outcome, now)) =>
                    /\ e \notin DOMAIN execs'
                    /\ jobs'[x.jobId].status = "failed"
                    /\ jobs'[x.jobId].progress = Num(0)
                    /\ jobs'[x.jobId].message = ErrorMessage("nopapers")
                    /\ last'[x.jobId] = Audit([x EXCEPT !.i = @ + 1], "nopapers")
                    /\ results' = results]_vars

(* C12 witness: an attempt that searched both of its topics and found        *)
(* nothing has ended                                                         *)
C12_Witness ==
    \E j \in DOMAIN jobs :
        /\ jobs[j].status = "failed"
        /\ jobs[j].progress = Num(0)
        /\ jobs[j].message = ErrorMessage("nopapers")
        /\ last[j] = [cause |-> "nopapers", topics |-> 2, searched |-> 2]

(* C13: a step in which searchScholar rejects does not end the attempt and   *)
(* does not write failed, unless it was the search of the last topic and no  *)
(* topic has a paper: the topic gets the empty list and the loop goes on,    *)
(* and after the last topic the attempt goes on to processPapers when some   *)
(* topic has a paper.  The empty list of a topic stays empty in the          *)
(* invocation (unless the same topic is in the list again and is searched    *)
(* again), and the result that is stored has the empty list for it.          *)
C13_FailedSearchTolerated ==
    /\ [][\A e \in DOMAIN execs : \A now \in Dates, outcome \in SearchOutcomes :
            LET x == execs[e]
                topic == x.expandedTopics[x.i + 1]
                papers == IF outcome.ok THEN outcome.value ELSE <<>>
                found == MapSet(x.papersByTopic, topic, papers)
                last_one == x.i + 1 = Len(x.expandedTopics)
            IN  (/\ x.pc = "searchTopic"
                 /\ SearchTopicStep(e, "ok", outcome, now)
                 /\ ~(last_one /\ TotalPapers(found) = 0)) =>
                    /\ e \in DOMAIN execs'
                    /\ jobs'[x.jobId].status = "processing"
                    /\ execs'[e].pc = IF last_one THEN "process" ELSE "searchTopic"
                    /\ execs'[e].papersByTopic[topic] = papers]_vars
    /\ [][\A e \in DOMAIN execs \cap DOMAIN execs' :
            \A t \in DOMAIN execs[e].papersByTopic :
                execs[e].papersByTopic[t] = <<>> =>
                    \/ execs'[e].papersByTopic[t] = <<>>
                    \/ /\ execs[e].pc = "searchTopic"
                       /\ execs[e].expandedTopics[execs[e].i + 1] = t]_vars
    /\ [][\A e \in DOMAIN execs : \A now \in Dates, outcome \in AnalysisOutcomes :
            LET x == execs[e] IN
            (x.pc = "analyze" /\ outcome.ok /\ AnalyzeStep(e, "ok", outcome, now)
                /\ PaperSummaries(x.papersByTopic) > 0) =>
                /\ x.jobId \in DOMAIN results'
                /\ DOMAIN results'[x.jobId].papersByTopic = DOMAIN x.papersByTopic
                /\ \A t \in DOMAIN x.papersByTopic :
                       x.papersByTopic[t] = <<>> =>
                           results'[x.jobId].papersByTopic[t] = <<>>]_vars

(* C13 witness: a job completed although the search of its first topic      *)
(* was rejected (where no search resolves to an empty list): the result has *)
(* the empty list for that topic and a paper for the other                   *)
C13_Witness ==
    \E j \in DOMAIN results :
        /\ env = "search"
        /\ jobs[j].status = "completed"
        /\ results[j].expandedTopics = <<"a", "b">>
        /\ results[j].papersByTopic["a"] = <<>>
        /\ results[j].papersByTopic["b"] # <<>>

(* C14 (as claimed): no job record and no unit of work exists for a query    *)
(* that is missing, empty or made only of whitespace.                        *)
C14_BlankQueryRejected ==
    /\ \A j \in DOMAIN jobs : jobs[j].query \notin {NoQuery, "", " "}
    /\ \A j \in DOMAIN bull : bull[j].data.query \notin {NoQuery, "", " "}

(* C15 (as claimed): whenever Bull counts a failed attempt of a job (an      *)
(* error thrown by the processor, or the timeout), the job record is failed  *)
(* with progress 0 and an error message.                                     *)
C15_FailedAttemptWritesFailed ==
    [][\A j \in DOMAIN bull :
          bull'[j].attemptsMade > bull[j].attemptsMade =>
              /\ jobs'[j].status = "failed"
              /\ jobs'[j].progress = Num(0)
              /\ jobs'[j].message \in
                     {ErrorMessage(c) : c \in {"expand", "nopapers", "process",
                                               "analysis", "novalid", "redis"}}]_vars

(* C16 (as claimed): the step in which Bull times an attempt out counts the  *)
(* attempt and leaves the job record failed with progress 0; and a job whose *)
(* attempts are exhausted, with no invocation left, is failed.               *)
C16_TimeoutWritesFailed ==
    /\ [][timeouts' = timeouts + 1 =>
             \E j \in DOMAIN bull :
                /\ bull'[j].attemptsMade = bull[j].attemptsMade + 1
                /\ jobs'[j].status = "failed"
                /\ jobs'[j].progress = Num(0)]_vars
    /\ [](\A j \in DOMAIN bull :
             (bull[j].state = "failed" /\ \A e \in DOMAIN execs : e[1] # j) =>
                 jobs[j].status = "failed")

(* C17 (as claimed): a job never has two invocations of the processor, and   *)
(* an invocation Bull has timed out writes nothing to jobs and results.      *)
C17_OneExecutionPerJob ==
    /\ [](\A e1, e2 \in DOMAIN execs : e1[1] = e2[1] => e1 = e2)
    /\ [][\A e \in DOMAIN execs :
             (~execs[e].owned /\ (e \notin DOMAIN execs' \/ execs'[e] # execs[e])) =>
                 jobs' = jobs /\ results' = results]_vars

(* C18 (as claimed): at most one job has a running invocation of the         *)
(* processor, and the job that is started is the oldest of the wait list,    *)
(* to which jobs are added at the end.                                       *)
C18_OneJobAtATimeInOrder ==
    /\ [](Cardinality({e[1] : e \in DOMAIN execs}) <= 1)
    /\ [][/\ runs' # runs =>
               /\ waiting # <<>>
               /\ runs' = [runs EXCEPT ![Head(waiting)] = @ + 1]
               /\ waiting' = Tail(waiting)
          /\ (runs' = runs /\ waiting' # waiting) =>
               \E j \in DOMAIN bull' : waiting' = Append(waiting, j)]_vars

(* C19 (as claimed): every step of an invocation that is in the Processing   *)
(* stage (status "Processing PDFs" written, processPapers called) takes it   *)
(* to the analysis, whatever processPapers and the progress report do, and   *)
(* the job is not failed.                                                    *)
C19_ProcessingNeverFails ==
    [][\A e \in DOMAIN execs :
          \A reported \in ProgressOutcomes, outcome \in ProcessOutcomes, now \in Dates :
              (execs[e].pc = "process" /\ ProcessStep(e, reported, outcome, now)) =>
                  /\ e \in DOMAIN execs'
                  /\ execs'[e].pc = "analyze"
                  /\ jobs'[execs[e].jobId].status = "processing"]_vars

(* C20 (as claimed): every job that was enqueued eventually has the status   *)
(* completed or failed.                                                      *)
C20_EventuallyTerminal ==
    \A j \in JobIds :
        (j \in DOMAIN bull) ~> (j \in DOMAIN jobs /\ Terminal(jobs[j]))

(* C21 (as claimed): in every state the status of each job is one of        *)
(* queued, processing, completed, failed, and its progress is an integer    *)
(* from 0 to 100, whatever the number of expanded topics.                   *)
C21_StatusAndIntegerProgress ==
    \A j \in DOMAIN jobs :
        /\ jobs[j].status \in {"queued", "processing", "completed", "failed"}
        /\ IsInteger(jobs[j].progress)
        /\ Leq(Num(0), jobs[j].progress)
        /\ Leq(jobs[j].progress, Num(100))

(* C22: GetStatus on an id with no job record answers 404 "Job not found";  *)
(* on a known job it answers 200 with the status, progress and message of   *)
(* the record ("" while no message was written) and its createdAt; as long  *)
(* as no status update was applied to the job (the processor was never      *)
(* invoked for it) updatedAt equals createdAt, afterwards it is the time of *)
(* the last update.                                                         *)
C22_StatusReplies ==
    \A id \in JobIds :
        LET r == StatusReply(jobs, id) IN
        IF id \notin DOMAIN jobs
        THEN r.code = 404 /\ r.message = "Job not found"
        ELSE /\ r.code = 200
             /\ r.status = jobs[id].status
             /\ r.progress = jobs[id].progress
             /\ r.message = (IF runs[id] = 0 THEN "" ELSE jobs[id].message)
             /\ r.createdAt = jobs[id].createdAt
             /\ runs[id] = 0 => (r.updatedAt = r.createdAt /\ r.status = "queued")
             /\ runs[id] > 0 => (r.updatedAt = jobs[id].updatedAt
                                    /\ r.updatedAt >= r.createdAt)

(* C22 witness: a job created at time 1 that was never updated, next to a   *)
(* job that was updated after its creation, and an id without a record was  *)
(* seen earlier (the second job did not exist when the first was created)   *)
C22_Witness ==
    /\ \E j \in DOMAIN jobs :
          /\ runs[j] = 0
          /\ jobs[j].createdAt = 1
          /\ StatusReply(jobs, j).updatedAt = 1
    /\ \E j \in DOMAIN jobs :
          /\ runs[j] > 0
          /\ StatusReply(jobs, j).updatedAt > StatusReply(jobs, j).createdAt

(* C23 (as claimed): a status update for an id with no job record fails and *)
(* ends the attempt that made it, so no invocation of the processor goes on *)
(* for an id that has no record; an update of an existing job changes the   *)
(* record and sets its updatedAt to the time of the update.                 *)
C23_UpdateOfAbsentJobFails ==
    [][/\ \A e \in DOMAIN execs' : execs'[e].jobId \in DOMAIN jobs'
       /\ \A j \in DOMAIN jobs :
             jobs'[j] # jobs[j] => jobs'[j].updatedAt = clock']_vars

(* C24: updates of different jobs are independent.  A step that creates or  *)
(* changes the record of a job, or stores or replaces its result, leaves    *)
(* the record and the result of every other job as they were, whichever way *)
(* the executions of the jobs are interleaved.                              *)
C24_UpdatesIndependent ==
    [][\A a \in DOMAIN jobs' : \A b \in DOMAIN jobs' \ {a} :
          (\/ a \notin DOMAIN jobs
           \/ jobs'[a] # jobs[a]
           \/ (a \in DOMAIN results') # (a \in DOMAIN results)
           \/ (a \in DOMAIN results /\ results'[a] # results[a]))
          => /\ b \in DOMAIN jobs
             /\ jobs'[b] = jobs[b]
             /\ (b \in DOMAIN results') = (b \in DOMAIN results)
             /\ b \in DOMAIN results => results'[b] = results[b]]_vars

(* C24 witness: executions of two jobs are in flight at the same time (one  *)
(* was cut by the timeout and goes on), both past their first update, and   *)
(* the result of one of the jobs is stored                                  *)
C24_Witness ==
    \E e1 \in DOMAIN execs, e2 \in DOMAIN execs :
        /\ execs[e1].jobId # execs[e2].jobId
        /\ execs[e1].pc = "report"
        /\ execs[e1].jobId \in DOMAIN results
        /\ execs[e2].pc \notin {"expand", "report"}
        /\ jobs[execs[e2].jobId].status = "processing"

(* C25 (as claimed): a retried job goes back to Queued between a failed     *)
(* attempt and the start of the next one: whenever the processor is invoked *)
(* for a job, the status of the job is queued at that moment.               *)
C25_RetryStartsFromQueued ==
    [][\A j \in DOMAIN jobs :
          runs'[j] > runs[j] => jobs[j].status = "queued"]_vars

(* C26: within one invocation of the processor the calls are strictly       *)
(* ordered.  The invocation has no topics and has searched nothing until    *)
(* expandQuery returned; then searchScholar is called for the topics one by *)
(* one in list order (i counts the calls made, call i + 1 is for topic      *)
(* i + 1, the topic list never changes); processPapers is called only when  *)
(* every topic was searched once; generateResearchAnalysis is called after  *)
(* processPapers returned, and once it returned the invocation only reports *)
(* and ends: no call is made twice and none out of order.                   *)
C26_CallsInOrder ==
    [][\A e \in DOMAIN execs :
          LET x == execs[e]
              n == Len(x.expandedTopics)
          IN  /\ x.pc = "expand" => (x.i = 0 /\ n = 0 /\ x.papersByTopic = EmptyMap)
              /\ x.pc = "search" => (x.i = 0 /\ x.papersByTopic = EmptyMap)
              /\ x.pc = "searchTopic" => x.i < n
              /\ x.pc \in {"process", "analyze", "report"} => (x.i = n /\ n > 0)
              /\ x.pc \in {"expand", "search", "searchTopic", "process", "analyze", "report"}
              /\ (e \in DOMAIN execs' /\ [execs'[e] EXCEPT !.owned = x.owned] # x) =>
                    LET y == execs'[e] IN
                    /\ x.pc # "report"
                    /\ x.pc = "expand" => (y.pc = "search" /\ y.i = 0)
                    /\ x.pc # "expand" => y.expandedTopics = x.expandedTopics
                    /\ x.pc = "search" => (y.pc = "searchTopic" /\ y.i = 0)
                    /\ x.pc = "searchTopic" =>
                          /\ y.i = x.i + 1
                          /\ x.expandedTopics[x.i + 1] \in DOMAIN y.papersByTopic
                          /\ y.pc = (IF y.i < n THEN "searchTopic" ELSE "process")
                    /\ x.pc # "searchTopic" => y.i = x.i
                    /\ x.pc = "process" => y.pc = "analyze"
                    /\ x.pc = "analyze" => y.pc = "report"]_vars

(* C26 witness: an invocation with two topics has searched both, processed  *)
(* the papers and got its analysis                                          *)
C26_Witness ==
    \E e \in DOMAIN execs :
        /\ execs[e].pc = "report"
        /\ Len(execs[e].expandedTopics) = 2
        /\ execs[e].i = 2
        /\ execs[e].jobId \in DOMAIN results

(* C27: when generateResearchAnalysis throws (the model's call fails, its   *)
(* answer cannot be parsed, or no paper has title, authors and abstract),   *)
(* the step ends the attempt: the invocation is over, Bull counts a failed  *)
(* attempt, the job is failed with progress 0 and the message of the error, *)
(* and the store of results is as it was, with no result for the job.       *)
C27_FailedAnalysisStoresNothing ==
    [][\A e \in DOMAIN execs : \A outcome \in AnalysisOutcomes : \A now \in Dates :
          LET x == execs[e] IN
          (/\ x.pc = "analyze"
           /\ (~outcome.ok \/ PaperSummaries(x.papersByTopic) = 0)
           /\ AnalyzeStep(e, "ok", outcome, now)) =>
              /\ e \notin DOMAIN execs'
              /\ bull'[x.jobId].attemptsMade = bull[x.jobId].attemptsMade + 1
              /\ bull'[x.jobId].state \in {"delayed", "failed"}
              /\ jobs'[x.jobId].status = "failed"
              /\ jobs'[x.jobId].progress = Num(0)
              /\ jobs'[x.jobId].message \in {ErrorMessage("analysis"), ErrorMessage("novalid")}
              /\ results' = results
              /\ x.jobId \notin DOMAIN results']_vars

(* C27 witness: the last attempt of a job found papers, none of them with   *)
(* title, authors and abstract; the job is failed and has no result         *)
C27_Witness ==
    \E j \in DOMAIN jobs :
        /\ last[j].cause = "novalid"
        /\ bull[j].state = "failed"
        /\ jobs[j].status = "failed"
        /\ jobs[j].progress = Num(0)
        /\ j \notin DOMAIN results

(* C28 (as claimed): processPapers retains every document: for every topic  *)
(* the processed list has the documents of the found list, in the same      *)
(* order, with or without a PDF link, a title or extractable text.          *)
C28_ProcessingRetainsEvery ==
    [][\A e \in DOMAIN execs : \A outcome \in ProcessOutcomes : \A now \in Dates :
          LET x == execs[e] IN
          (x.pc = "process" /\ outcome.ok /\ ProcessStep(e, "ok", outcome, now)) =>
              LET found == x.papersByTopic
                  kept == execs'[e].papersByTopic
              IN  /\ DOMAIN kept = DOMAIN found
                  /\ \A t \in DOMAIN found :
                        /\ Len(kept[t]) = Len(found[t])
                        /\ \A k \in 1 .. Len(found[t]) :
                              [kept[t][k] EXCEPT !.fullText = NULL] = found[t][k]]_vars

(* C28 (amended): processPapers retains every document that has a title:    *)
(* for every topic the processed list has the titled documents of the found *)
(* list, in the same order, with or without a PDF link or extractable text  *)
(* (a document without link, or whose PDF cannot be read, is kept as it was *)
(* found); a document with an empty title is left out.                      *)
C28_ProcessingRetainsTitled ==
    [][\A e \in DOMAIN execs : \A outcome \in ProcessOutcomes : \A now \in Dates :
          LET x == execs[e] IN
          (x.pc = "process" /\ outcome.ok /\ ProcessStep(e, "ok", outcome, now)) =>
              LET found == x.papersByTopic
                  kept == execs'[e].papersByTopic
              IN  /\ DOMAIN kept = DOMAIN found
                  /\ \A t \in DOMAIN found :
                        LET titled == {k \in 1 .. Len(found[t]) : found[t][k].title # ""}
                            rank(k) == Cardinality({m \in titled : m <= k})
                        IN  /\ Len(kept[t]) = Cardinality(titled)
                            /\ \A k \in titled :
                                  /\ [kept[t][rank(k)] EXCEPT !.fullText = NULL] = found[t][k]
                                  /\ (~found[t][k].pdfUrl \/ ~outcome.value) =>
                                        kept[t][rank(k)] = found[t][k]]_vars

(* C28 witness: processPapers has returned; it kept a document without PDF  *)
(* link and, after it, a document whose PDF could not be read               *)
C28_Witness ==
    \E e \in DOMAIN execs :
        /\ execs[e].pc = "analyze"
        /\ execs[e].papersByTopic["a"] = <<PlainPaper, GoodPaper>>

(* C29 (as claimed): when the attempts of a job are exhausted (Bull has     *)
(* moved it to failed), the job is failed and its message is the error      *)
(* message of the attempt that failed last, not a stage message.            *)
C29_ExhaustedKeepsLastError ==
    \A j \in DOMAIN jobs :
        (j \in DOMAIN bull /\ bull[j].state = "failed") =>
            /\ jobs[j].status = "failed"
            /\ last[j].cause \notin {"", "none"}
            /\ jobs[j].message = ErrorMessage(last[j].cause)

(* C30 (as claimed): in both versions of the controller the progress        *)
(* written before topic i of the search loop starts at 20 for the first     *)
(* topic, grows strictly from each topic to the next and stays below the    *)
(* value written on entry to Processing (50; 70 in the earlier version),    *)
(* which is written next.                                                   *)
C30_SearchProgressGrowsStrictly ==
    [][\A e \in DOMAIN execs :
          LET x == execs[e]
              p == jobs[x.jobId].progress
              q == jobs'[x.jobId].progress
          IN  /\ x.pc = "searchTopic" =>
                    /\ Leq(Num(ProgressSearching), p) /\ Less(p, Num(ProgressProcessing))
                    /\ x.i = 0 => p = Num(ProgressSearching)
              /\ x.pc = "earlierTopic" =>
                    /\ Leq(Num(ProgressSearching), p) /\ Less(p, Num(EarlierProcessing))
                    /\ x.i = 0 => p = Num(ProgressSearching)
              /\ (e \in DOMAIN execs' /\ execs'[e] # x) =>
                    LET y == execs'[e] IN
                    /\ (x.pc = "search" /\ y.pc = "searchTopic") =>
                          (p = Num(ProgressSearching) /\ q = p)
                    /\ (x.pc = "searchTopic" /\ y.pc = "searchTopic") => Less(p, q)
                    /\ (x.pc = "searchTopic" /\ y.pc = "process") =>
                          q = Num(ProgressProcessing)
                    /\ (x.pc = "earlierTopic" /\ y.pc = "earlierTopic") => Less(p, q)
                    /\ (x.pc = "earlierTopic" /\ y.pc = "earlierProcess") =>
                          q = Num(EarlierProcessing)]_vars

(* C30 (amended): as claimed for researchController.js; in the earlier      *)
(* version, which rounds the value down, the progress written before topic  *)
(* i never decreases from a topic to the next, and grows strictly when      *)
(* there are at most 50 topics.                                             *)
C30_SearchProgressNeverStepsBack ==
    [][\A e \in DOMAIN execs :
          LET x == execs[e]
              n == Len(x.expandedTopics)
              p == jobs[x.jobId].progress
              q == jobs'[x.jobId].progress
          IN  /\ x.pc = "searchTopic" =>
                    /\ Leq(Num(ProgressSearching), p) /\ Less(p, Num(ProgressProcessing))
                    /\ x.i = 0 => p = Num(ProgressSearching)
              /\ x.pc = "earlierTopic" =>
                    /\ Leq(Num(ProgressSearching), p) /\ Less(p, Num(EarlierProcessing))
                    /\ x.i = 0 => p = Num(ProgressSearching)
              /\ (e \in DOMAIN execs' /\ execs'[e] # x) =>
                    LET y == execs'[e] IN
                    /\ (x.pc = "search" /\ y.pc = "searchTopic") =>
                          (p = Num(ProgressSearching) /\ q = p)
                    /\ (x.pc = "searchTopic" /\ y.pc = "searchTopic") => Less(p, q)
                    /\ (x.pc = "searchTopic" /\ y.pc = "process") =>
                          q = Num(ProgressProcessing)
                    /\ (x.pc = "earlierTopic" /\ y.pc = "earlierTopic") =>
                          /\ Leq(p, q)
                          /\ n <= EarlierBand => Less(p, q)
                    /\ (x.pc = "earlierTopic" /\ y.pc = "earlierProcess") =>
                          q = Num(EarlierProcessing)]_vars

(* C30 witness: researchController.js is about to search the last of four   *)
(* topics, with progress 20 + (3 / 4) * 30 = 42.5                           *)
C30_Witness ==
    \E e \in DOMAIN execs :
        /\ execs[e].pc = "searchTopic"
        /\ Len(execs[e].expandedTopics) = 4
        /\ execs[e].i = 3
        /\ jobs[execs[e].jobId].progress = <<85, 2>>

(* C31: the id, query and createdAt of a job never change after creation.   *)
(* Every step keeps every existing record in the store under its id, with   *)
(* the id, query and createdAt it had; the record stored under an id        *)
(* carries that id, so there is one record per id; a step that updates a    *)
(* record (status, progress, message, updatedAt) changes nothing else.      *)
C31_IdentityFieldsImmutable ==
    [][/\ \A j \in DOMAIN jobs :
             /\ j \in DOMAIN jobs'
             /\ jobs'[j].id = jobs[j].id
             /\ jobs'[j].query = jobs[j].query
             /\ jobs'[j].createdAt = jobs[j].createdAt
       /\ \A j \in DOMAIN jobs' :
             /\ jobs'[j].id = j
             /\ jobs'[j].query \in {" ", "q"}
             /\ jobs'[j].createdAt <= clock']_vars

(* C31 witness: a job created at time 0 was updated at time 1, in its       *)
(* second attempt, and is completed                                         *)
C31_Witness ==
    \E j \in DOMAIN jobs :
        /\ jobs[j].createdAt = 0
        /\ jobs[j].updatedAt = 1
        /\ runs[j] = 2
        /\ jobs[j].status = "completed"
        /\ jobs[j].query = "q"

(* C32: in every state a job whose status is completed has progress 100 and *)
(* a stored result (GetResults answers 200), and a job whose status is      *)
(* failed has progress 0.                                                   *)
C32_TerminalProgress ==
    \A j \in DOMAIN jobs :
        /\ jobs[j].status = "completed" =>
              /\ jobs[j].progress = Num(ProgressCompleted)
              /\ j \in DOMAIN results
              /\ ResultsReply(jobs, results, j).code = 200
        /\ jobs[j].status = "failed" => jobs[j].progress = Num(ProgressFailed)

(* C32 witness: one job is completed, another one is failed after its last  *)
(* attempt                                                                  *)
C32_Witness ==
    \E a \in DOMAIN jobs, b \in DOMAIN jobs :
        /\ jobs[a].status = "completed"
        /\ a \in DOMAIN results
        /\ jobs[b].status = "failed"
        /\ bull[b].state = "failed"

(* C33: in every stored result the keys of papersByTopic are exactly the    *)
(* topics that occur in expandedTopics: each expanded topic has an entry,   *)
(* possibly an empty list, and there is no other key, also when a topic     *)
(* occurs twice in the list.                                                *)
C33_ResultKeysAreTopics ==
    \A j \in DOMAIN results :
        LET r == results[j] IN
        DOMAIN r.papersByTopic =
            {r.expandedTopics[k] : k \in 1 .. Len(r.expandedTopics)}

(* C33 witness: a result is stored for a topic list that names one topic    *)
(* twice                                                                    *)
C33_Witness ==
    \E j \in DOMAIN results :
        /\ results[j].expandedTopics = <<"a", "a">>
        /\ DOMAIN results[j].papersByTopic = {"a"}

(* C34 (as claimed): when researchQueue.add fails, no record of the new job *)
(* stays in the store: every job whose status is queued has a unit of work  *)
(* waiting in the queue.                                                    *)
C34_QueuedJobIsEnqueued ==
    \A j \in DOMAIN jobs :
        jobs[j].status = "queued" =>
            /\ j \in DOMAIN bull
            /\ bull[j].state = "waiting"
            /\ \E k \in 1 .. Len(waiting) : waiting[k] = j

(* C35 (as claimed): every stored result belongs to a job that has a record *)
(* in the store; a unit of work for an id without record stores no result.  *)
C35_ResultHasJobRecord ==
    \A j \in DOMAIN results : j \in DOMAIN jobs

(* C36: GetStatus and GetResults are read-only: for every id, in every      *)
(* state, a step of getResearchStatus or getResearchResults leaves every    *)
(* job record, every result and the queue (the units of work and the wait   *)
(* list) as they were.                                                      *)
C36_ReadsChangeNothing ==
    [][\A id \in JobIds :
          (getResearchStatus(id) \/ getResearchResults(id)) =>
              /\ jobs' = jobs
              /\ results' = results
              /\ bull' = bull
              /\ waiting' = waiting]_vars

(* C36 witness: a state where the reads answer in each way: one job is      *)
(* completed (GetStatus answers 200 with progress 100, GetResults 200 with  *)
(* the analysis), the other id is unknown (both answer 404)                 *)
C36_Witness ==
    \E a \in JobIds, b \in JobIds :
        /\ StatusReply(jobs, a).code = 200
        /\ StatusReply(jobs, a).progress = Num(ProgressCompleted)
        /\ ResultsReply(jobs, results, a).code = 200
        /\ ResultsReply(jobs, results, a).body.analysis = "analysis"
        /\ StatusReply(jobs, b).code = 404
        /\ ResultsReply(jobs, results, b).code = 404

====
